---- MODULE Spec2Model ----
(***************************************************************************)
(* Bovine-Breed-App (src/breed.py): a Streamlit script over a SQLite       *)
(* database and a Keras classifier.  The whole script is evaluated again   *)
(* on every widget interaction; a button reads as pressed only in the run  *)
(* its own press caused.                                                   *)
(*                                                                         *)
(* Spec      : the browser drives the script (one action per interaction). *)
(* SpecStore : the database functions called directly with any arguments.  *)
(***************************************************************************)
EXTENDS Integers, Sequences, FiniteSets, TLC

VARIABLES
    users,          \* table users: set of rows
    predictions,    \* table predictions: set of rows
    user,           \* st.session_state.user: <<>> (None) or <<row>>
    page,           \* st.session_state.page
    opt,            \* the radio of page_auth, as the browser holds it
    up,             \* the file uploader: "" or the uploaded file's name
    cam,            \* the camera input: TRUE when a photo was taken
    form,           \* save_form as the browser shows it: <<>> or <<values>>
    model,          \* module global model of the last run: "None" or "Loaded"
    idx_to_class,   \* module global idx_to_class of the last run: set of <<idx, name>>
    fs,             \* the model artifacts on disk
    temp,           \* the names of the files in the directory temp
    shown,          \* what the last run printed of predict: <<>> or <<[label, conf]>>
    listed,         \* the records the last run listed on page_records
    msg,            \* the page's message of the last run
    ev,             \* the interaction that caused the last run
    ret,            \* the last database call: its arguments and what it returned
    created,        \* history: the (email, password) pairs add_user accepted
    log             \* history: the rows save_prediction inserted, in order

vars == <<users, predictions, user, page, opt, up, cam, form, model,
          idx_to_class, fs, temp, shown, listed, msg, ev, ret, created, log>>

---------------------------------------------------------------------------
(* Bounds and input sets *)

MaxRecords == 2

Emails == {"a@x.com", "b@x.com"}
\* the one address typed into the forms of page_auth
UiEmails == {"a@x.com"}
Passwords == {"pw1", "pw2"}
Names == {"Asha"}
Phones == {"555"}
Addresses == {"Anand"}
Times == {"2025-01-01 10:00:00", "2025-01-01 10:00:01"}
FileNames == {"cow.jpg"}
Breeds == {"Gir"}
Genders == {"Male", "Female"}

\* what a user may type into the three number fields
TypedHeights == {30, 130, 251}
TypedWeights == {350, 1001}
TypedAges == {-1, 4}

\* rows handed to save_prediction when it is called directly
Samples == { [breed |-> "Gir", h |-> 130, w |-> 350, a |-> 4, g |-> "Female",
              path |-> <<"temp", "cow.jpg">>],
             [breed |-> "Sahiwal", h |-> 30, w |-> 300, a |-> 3, g |-> "Male",
              path |-> <<"temp", "captured.jpg">>] }

\* outputs of the network's forward pass, in halves (2 = probability 1.0)
Scores == { <<1, 1, 0>>, <<0, 0, 2>> }

Null == "<NULL>"

---------------------------------------------------------------------------
(* Database layer *)

HeightMin == 50
HeightMax == 250
HeightDefault == 120
WeightMin == 50
WeightMax == 1000
WeightDefault == 300
AgeMin == 0
AgeMax == 25
AgeDefault == 3

\* hashlib.sha256(p.encode()).hexdigest(), leading 8 hex digits
hash_pw(p) ==
    CASE p = "pw1" -> "c592df4a"
      [] p = "pw2" -> "93915a0a"
      [] p = ""    -> "e3b0c442"

\* INTEGER PRIMARY KEY AUTOINCREMENT; no row is ever deleted
NextId(table) ==
    IF table = {} THEN 1
    ELSE (CHOOSE i \in {r.id : r \in table} : \A r \in table : r.id <= i) + 1

add_user_nounique(us, email, pw) ==
    [ok |-> TRUE,
     users |-> us \cup {[id |-> NextId(us), email |-> email,
                         password |-> hash_pw(pw), name |-> Null,
                         phone |-> Null, address |-> Null]}]

\* ok = FALSE: the INSERT raised sqlite3.IntegrityError (email TEXT UNIQUE)
add_user(us, email, pw) ==
    IF \E r \in us : r.email = email
    THEN [ok |-> FALSE, users |-> us]
    ELSE [ok |-> TRUE,
          users |-> us \cup {[id |-> NextId(us), email |-> email,
                              password |-> hash_pw(pw), name |-> Null,
                              phone |-> Null, address |-> Null]}]

login_user_anypw(us, email, pw) ==
    LET m == {r \in us : r.email = email}
    IN IF m = {} THEN <<>>
       ELSE <<CHOOSE r \in m : \A q \in m : r.id <= q.id>>

\* <<>> is None, <<row>> is dict(row)
login_user(us, email, pw) ==
    LET m == {r \in us : r.email = email /\ r.password = hash_pw(pw)}
    IN IF m = {} THEN <<>>
       ELSE <<CHOOSE r \in m : \A q \in m : r.id <= q.id>>

\* foreign keys are not enforced: the connection never sets PRAGMA foreign_keys
save_prediction(ps, uid, breed, h, w, age, g, path, now) ==
    ps \cup {[id |-> NextId(ps), user_id |-> uid, breed |-> breed,
              height |-> h, weight |-> w, age |-> age, gender |-> g,
              image_path |-> path, created_at |-> now]}

Columns(r) ==
    [breed |-> r.breed, height |-> r.height, weight |-> r.weight,
     age |-> r.age, gender |-> r.gender, image_path |-> r.image_path,
     created_at |-> r.created_at]

RECURSIVE OrderByIdDesc(_)
OrderByIdDesc(S) ==
    IF S = {} THEN <<>>
    ELSE LET m == CHOOSE r \in S : \A q \in S : q.id <= r.id
         IN <<Columns(m)>> \o OrderByIdDesc(S \ {m})

RECURSIVE OrderByIdAsc(_)
OrderByIdAsc(S) ==
    IF S = {} THEN <<>>
    ELSE LET m == CHOOSE r \in S : \A q \in S : r.id <= q.id
         IN <<Columns(m)>> \o OrderByIdAsc(S \ {m})

get_records_asc(ps, uid) == OrderByIdAsc({r \in ps : r.user_id = uid})

get_records(ps, uid) == OrderByIdDesc({r \in ps : r.user_id = uid})

update_profile_nowhere(us, uid, n, p, a) ==
    {[r EXCEPT !.name = n, !.phone = p, !.address = a] : r \in us}

update_profile(us, uid, n, p, a) ==
    {IF r.id = uid THEN [r EXCEPT !.name = n, !.phone = p, !.address = a]
     ELSE r : r \in us}

---------------------------------------------------------------------------
(* Classifier *)

\* loadable: load_model and json.load succeed on the files that are there
FsStates ==
    {f \in [model_exists : BOOLEAN, class_exists : BOOLEAN, loadable : BOOLEAN] :
        f.loadable => f.model_exists /\ f.class_exists}

\* the content of bovine_breed_with_invalid_classes.json: breed name -> output index
ClassJson == { <<"Gir", 0>>, <<"Sahiwal", 1>> }

\* the module-level loading code, evaluated in every run of the script
LoadModel(f) ==
    IF ~f.model_exists
    THEN [model |-> "None", idx_to_class |-> {}]
    ELSE IF ~f.class_exists
    THEN [model |-> "None", idx_to_class |-> {}]
    ELSE IF f.loadable
    THEN [model |-> "Loaded", idx_to_class |-> {<<kv[2], kv[1]>> : kv \in ClassJson}]
    ELSE [model |-> "None", idx_to_class |-> {}]

\* np.argmax: the first index of the maximum, counted from 0
ArgMax(p) ==
    (CHOOSE i \in 1..Len(p) :
        /\ \A j \in 1..Len(p) : p[j] <= p[i]
        /\ \A j \in 1..(i - 1) : p[j] < p[i]) - 1

\* dict.get(key, default)
DictGet(d, key, default) ==
    IF \E kv \in d : kv[1] = key
    THEN (CHOOSE kv \in d : kv[1] = key)[2]
    ELSE default

predict_unchecked(m, itc, img, p) ==
    LET idx == ArgMax(p)
    IN [label |-> DictGet(itc, idx, "Unknown"), conf |-> p[idx + 1] * 50]

\* p is what model.predict returns for img, in halves: conf is p*100
predict(m, itc, img, p) ==
    IF m = "None"
    THEN [label |-> "Unknown", conf |-> 0]
    ELSE LET idx == ArgMax(p)
         IN [label |-> DictGet(itc, idx, "Unknown"), conf |-> p[idx + 1] * 50]

---------------------------------------------------------------------------
(* The script: one evaluation, as a function of the state it starts from *)

NoCall == [op |-> "none", email |-> "", pw |-> "", uid |-> 0,
           profile |-> <<>>, ok |-> TRUE, rows |-> <<>>]

NoEvent == [kind |-> "none"]

Pressed(e, button) == e.kind = button

\* st.number_input(label, min, max, value): the browser commits a typed value
\* only when it lies in [min, max]; otherwise the field keeps its value
number_input_nomin(min, max, cur, typed) ==
    IF typed <= max THEN typed ELSE cur

number_input(min, max, cur, typed) ==
    IF min <= typed /\ typed <= max THEN typed ELSE cur

\* the state one evaluation reads and writes
St == [users |-> users, predictions |-> predictions, user |-> user,
       page |-> page, opt |-> opt, up |-> up, cam |-> cam, form |-> form,
       model |-> model, idx_to_class |-> idx_to_class, temp |-> temp,
       shown |-> shown,
       listed |-> listed, msg |-> msg, rerun |-> FALSE]

\* lines 74-90 and 134-135: globals are rebuilt, session_state is kept;
\* nothing of the previous run's output stays on the page
ModuleLevel(s, f) ==
    LET l == LoadModel(f)
    IN [s EXCEPT !.model = l.model, !.idx_to_class = l.idx_to_class,
                 !.shown = <<>>, !.form = <<>>, !.listed = <<>>, !.msg = "",
                 !.rerun = FALSE]

page_auth(s, e) ==
    IF s.opt = "Sign Up"
    THEN IF Pressed(e, "create")
         THEN LET r == add_user(s.users, e.email, e.pw)
              IN [s EXCEPT !.users = r.users,
                           !.msg = IF r.ok THEN "User created"
                                   ELSE "Email exists or error"]
         ELSE s
    ELSE IF s.opt = "Login"
    THEN IF Pressed(e, "login")
         THEN LET u == login_user(s.users, e.email, e.pw)
              IN IF u # <<>>
                 THEN [s EXCEPT !.user = u, !.page = "upload", !.rerun = TRUE]
                 ELSE [s EXCEPT !.msg = "Invalid credentials"]
         ELSE s
    ELSE [s EXCEPT !.page = "upload", !.rerun = TRUE]

page_upload(s, e) ==
    IF s.up # "" \/ s.cam
    THEN LET img == IF s.up # "" THEN s.up ELSE "camera"
             name == IF s.up # "" THEN s.up ELSE "captured.jpg"
             path == <<"temp", name>>
             s0 == [s EXCEPT !.temp = @ \cup {name}]
         IN IF Pressed(e, "predict")
            THEN LET r == predict(s.model, s.idx_to_class, img, e.scores)
                     s1 == [s0 EXCEPT !.shown = <<r>>]
                     fresh == [breed |-> r.label, h |-> HeightDefault,
                               w |-> WeightDefault, a |-> AgeDefault, g |-> "Male"]
                 IN IF Pressed(e, "save")
                    THEN IF s.user # <<>>
                         THEN [s1 EXCEPT
                                 !.predictions =
                                     save_prediction(@, s.user[1].id, e.form.breed,
                                                     e.form.h, e.form.w, e.form.a,
                                                     e.form.g, path, e.now),
                                 !.form = <<e.form>>, !.msg = "Saved"]
                         ELSE [s1 EXCEPT !.form = <<e.form>>,
                                         !.msg = "Login first to save"]
                    ELSE [s1 EXCEPT !.form = <<fresh>>]
            ELSE s0
    ELSE s

page_profile(s, e) ==
    IF s.user # <<>>
    THEN IF Pressed(e, "save_profile")
         THEN [s EXCEPT
                 !.users = update_profile(@, s.user[1].id, e.name, e.phone, e.address),
                 !.msg = "Profile Updated"]
         ELSE IF Pressed(e, "logout")
         THEN [s EXCEPT !.user = <<>>, !.page = "auth", !.rerun = TRUE]
         ELSE s
    ELSE [s EXCEPT !.msg = "Please login"]

page_records(s, e) ==
    IF s.user # <<>>
    THEN LET rec == get_records(s.predictions, s.user[1].id)
         IN [s EXCEPT !.listed = rec,
                      !.msg = IF rec # <<>> THEN "" ELSE "No records yet"]
    ELSE [s EXCEPT !.msg = "Login to view records"]

\* lines 226-236; st.experimental_rerun() ends the evaluation where it is called
Router(s, e) ==
    LET s1 == CASE s.page = "auth"    -> page_auth(s, e)
                [] s.page = "upload"  -> page_upload(s, e)
                [] s.page = "profile" -> page_profile(s, e)
                [] OTHER              -> page_records(s, e)
    IN IF s1.rerun THEN s1
       ELSE IF Pressed(e, "home") THEN [s1 EXCEPT !.page = "upload", !.rerun = TRUE]
       ELSE IF Pressed(e, "profile") THEN [s1 EXCEPT !.page = "profile", !.rerun = TRUE]
       ELSE IF Pressed(e, "records") THEN [s1 EXCEPT !.page = "records", !.rerun = TRUE]
       ELSE s1

\* a widget that an evaluation does not draw loses its value
Widgets(s) ==
    [s EXCEPT !.opt = IF s.page = "auth" THEN @ ELSE "Login",
              !.up = IF s.page = "upload" THEN @ ELSE "",
              !.cam = IF s.page = "upload" THEN @ ELSE FALSE]

\* one interaction: the evaluation it causes and the one a rerun request causes
Run(s, e, f) ==
    LET s1 == Router(ModuleLevel(s, f), e)
    IN Widgets(IF s1.rerun THEN Router(ModuleLevel(s1, f), NoEvent) ELSE s1)

---------------------------------------------------------------------------
(* Initial state: the first evaluation of the script in a new session, on an
   empty database *)

Init ==
    /\ users = {}
    /\ predictions = {}
    /\ user = <<>>
    /\ page = "auth"
    /\ opt = "Login"
    /\ up = ""
    /\ cam = FALSE
    /\ form = <<>>
    /\ fs \in FsStates
    /\ temp = {}
    /\ model = LoadModel(fs).model
    /\ idx_to_class = LoadModel(fs).idx_to_class
    /\ shown = <<>>
    /\ listed = <<>>
    /\ msg = ""
    /\ ev = "start"
    /\ ret = NoCall
    /\ created = {}
    /\ log = <<>>

RECURSIVE RowsById(_)
RowsById(S) ==
    IF S = {} THEN <<>>
    ELSE LET m == CHOOSE r \in S : \A q \in S : r.id <= q.id
         IN <<m>> \o RowsById(S \ {m})

\* the state an interaction leaves, and the two histories
Apply(s, e) ==
    /\ users' = s.users
    /\ predictions' = s.predictions
    /\ user' = s.user
    /\ page' = s.page
    /\ opt' = s.opt
    /\ up' = s.up
    /\ cam' = s.cam
    /\ form' = s.form
    /\ model' = s.model
    /\ idx_to_class' = s.idx_to_class
    /\ temp' = s.temp
    /\ shown' = s.shown
    /\ listed' = s.listed
    /\ msg' = s.msg
    /\ ev' = e.kind
    /\ created' = IF e.kind = "create" /\ s.users # users
                  THEN created \cup {<<e.email, e.pw>>}
                  ELSE created
    /\ log' = log \o RowsById(s.predictions \ predictions)
    /\ UNCHANGED <<fs, ret>>

---------------------------------------------------------------------------
(* Spec: the interactions of the browser *)

\* the model artifacts are put in place, removed or replaced while the app runs
FsChange ==
    /\ fs' \in FsStates \ {fs}
    /\ ev' = "fs_change"
    /\ UNCHANGED <<users, predictions, user, page, opt, up, cam, form, model,
                   idx_to_class, temp, shown, listed, msg, ret, created, log>>

SelectRadio(o) ==
    /\ page = "auth"
    /\ o # opt
    /\ LET e == [kind |-> "radio"] IN Apply(Run([St EXCEPT !.opt = o], e, fs), e)

PressCreateAccount(email, pw) ==
    /\ page = "auth"
    /\ opt = "Sign Up"
    /\ LET e == [kind |-> "create", email |-> email, pw |-> pw] IN Apply(Run(St, e, fs), e)

PressLogin(email, pw) ==
    /\ page = "auth"
    /\ opt = "Login"
    /\ LET e == [kind |-> "login", email |-> email, pw |-> pw] IN Apply(Run(St, e, fs), e)

UploadFile(name) ==
    /\ page = "upload"
    /\ name # up
    /\ LET e == [kind |-> "upload"] IN Apply(Run([St EXCEPT !.up = name], e, fs), e)

TakePhoto(taken) ==
    /\ page = "upload"
    /\ taken # cam
    /\ LET e == [kind |-> "camera"] IN Apply(Run([St EXCEPT !.cam = taken], e, fs), e)

PressPredict(p) ==
    /\ page = "upload"
    /\ up # "" \/ cam
    /\ LET e == [kind |-> "predict", scores |-> p] IN Apply(Run(St, e, fs), e)

\* the fields of save_form are edited in the browser; a form sends nothing
\* to the script until it is submitted
SetField(f, rejected) ==
    /\ form' = <<f>>
    /\ msg' = IF rejected THEN "Value out of range" ELSE ""
    /\ ev' = "edit"
    /\ UNCHANGED <<users, predictions, user, page, opt, up, cam, model,
                   idx_to_class, fs, temp, shown, listed, ret, created, log>>

EditBreed(b) ==
    /\ form # <<>>
    /\ SetField([form[1] EXCEPT !.breed = b], FALSE)

EditHeight(v) ==
    /\ form # <<>>
    /\ LET x == number_input(HeightMin, HeightMax, form[1].h, v)
       IN SetField([form[1] EXCEPT !.h = x], x # v)

EditWeight(v) ==
    /\ form # <<>>
    /\ LET x == number_input(WeightMin, WeightMax, form[1].w, v)
       IN SetField([form[1] EXCEPT !.w = x], x # v)

EditAge(v) ==
    /\ form # <<>>
    /\ LET x == number_input(AgeMin, AgeMax, form[1].a, v)
       IN SetField([form[1] EXCEPT !.a = x], x # v)

EditGender(g) ==
    /\ form # <<>>
    /\ SetField([form[1] EXCEPT !.g = g], FALSE)

PressSaveResult(now) ==
    /\ form # <<>>
    /\ Cardinality(predictions) < MaxRecords
    /\ LET e == [kind |-> "save", form |-> form[1], now |-> now]
       IN Apply(Run(St, e, fs), e)

PressSaveProfile(n, ph, ad) ==
    /\ page = "profile"
    /\ user # <<>>
    /\ LET e == [kind |-> "save_profile", name |-> n, phone |-> ph,
                      address |-> ad] IN Apply(Run(St, e, fs), e)

PressLogout ==
    /\ page = "profile"
    /\ user # <<>>
    /\ LET e == [kind |-> "logout"] IN Apply(Run(St, e, fs), e)

PressHome == LET e == [kind |-> "home"] IN Apply(Run(St, e, fs), e)

PressProfile == LET e == [kind |-> "profile"] IN Apply(Run(St, e, fs), e)

PressRecords == LET e == [kind |-> "records"] IN Apply(Run(St, e, fs), e)

Next ==
    \/ FsChange
    \/ \E o \in {"Login", "Sign Up", "Skip"} : SelectRadio(o)
    \/ \E e \in UiEmails, p \in Passwords : PressCreateAccount(e, p)
    \/ \E e \in UiEmails, p \in Passwords : PressLogin(e, p)
    \/ \E n \in FileNames \cup {""} : UploadFile(n)
    \/ \E t \in BOOLEAN : TakePhoto(t)
    \/ \E p \in Scores : PressPredict(p)
    \/ \E b \in Breeds : EditBreed(b)
    \/ \E v \in TypedHeights : EditHeight(v)
    \/ \E v \in TypedWeights : EditWeight(v)
    \/ \E v \in TypedAges : EditAge(v)
    \/ \E g \in Genders : EditGender(g)
    \/ \E t \in Times : PressSaveResult(t)
    \/ \E n \in Names, ph \in Phones, ad \in Addresses : PressSaveProfile(n, ph, ad)
    \/ PressLogout
    \/ PressHome
    \/ PressProfile
    \/ PressRecords

Spec == Init /\ [][Next]_vars

---------------------------------------------------------------------------
(* SpecStore: the database functions, called directly *)

\* users holds at most one row per email: id 2 is no row until both exist
Uids == {1, 2}

InitStore == Init /\ fs = [model_exists |-> TRUE, class_exists |-> TRUE, loadable |-> TRUE]

UiUnchanged == UNCHANGED <<user, page, opt, up, cam, form, model, idx_to_class,
                           fs, temp, shown, listed, msg>>

AddUser(email, pw) ==
    LET r == add_user(users, email, pw)
    IN /\ users' = r.users
       /\ ret' = [NoCall EXCEPT !.op = "add_user", !.email = email, !.pw = pw,
                                !.ok = r.ok]
       /\ created' = IF r.ok THEN created \cup {<<email, pw>>} ELSE created
       /\ ev' = "add_user"
       /\ UNCHANGED <<predictions, log>>
       /\ UiUnchanged

LoginUser(email, pw) ==
    /\ ret' = [NoCall EXCEPT !.op = "login_user", !.email = email, !.pw = pw,
                             !.rows = login_user(users, email, pw)]
    /\ ev' = "login_user"
    /\ UNCHANGED <<users, predictions, created, log>>
    /\ UiUnchanged

SavePrediction(uid, x, now) ==
    /\ Cardinality(predictions) < MaxRecords
    /\ predictions' = save_prediction(predictions, uid, x.breed, x.h, x.w, x.a,
                                      x.g, x.path, now)
    /\ log' = log \o RowsById(predictions' \ predictions)
    /\ ret' = [NoCall EXCEPT !.op = "save_prediction", !.uid = uid]
    /\ ev' = "save_prediction"
    /\ UNCHANGED <<users, created>>
    /\ UiUnchanged

GetRecords(uid) ==
    /\ ret' = [NoCall EXCEPT !.op = "get_records", !.uid = uid,
                             !.rows = get_records(predictions, uid)]
    /\ ev' = "get_records"
    /\ UNCHANGED <<users, predictions, created, log>>
    /\ UiUnchanged

UpdateProfile(uid, n, ph, ad) ==
    /\ users' = update_profile(users, uid, n, ph, ad)
    /\ ret' = [NoCall EXCEPT !.op = "update_profile", !.uid = uid,
                             !.profile = <<n, ph, ad>>]
    /\ ev' = "update_profile"
    /\ UNCHANGED <<predictions, created, log>>
    /\ UiUnchanged

NextStore ==
    \/ \E e \in Emails, p \in Passwords : AddUser(e, p)
    \/ \E e \in Emails, p \in Passwords : LoginUser(e, p)
    \/ \E u \in Uids, x \in Samples, t \in Times : SavePrediction(u, x, t)
    \/ \E u \in Uids : GetRecords(u)
    \/ \E u \in Uids, n \in Names, ph \in Phones, ad \in Addresses :
          UpdateProfile(u, n, ph, ad)

SpecStore == InitStore /\ [][NextStore]_vars

---------------------------------------------------------------------------
(* Claims *)

Ids(table) == {r.id : r \in table}

RECURSIVE Reverse(_)
Reverse(q) == IF q = <<>> THEN <<>> ELSE Reverse(Tail(q)) \o <<Head(q)>>

RECURSIVE SavedFor(_, _)
\* the rows of user uid among the inserted rows q, as get_records shows a row
SavedFor(q, uid) ==
    IF q = <<>> THEN <<>>
    ELSE (IF Head(q).user_id = uid THEN <<Columns(Head(q))>> ELSE <<>>)
         \o SavedFor(Tail(q), uid)

InBounds(h, w, a, g) ==
    /\ HeightMin <= h /\ h <= HeightMax
    /\ WeightMin <= w /\ w <= WeightMax
    /\ AgeMin <= a /\ a <= AgeMax
    /\ g \in {"Male", "Female"}

\* C1: login_user(email, pw) returns a row, and then one with that email,
\* exactly when add_user accepted that email with that password; otherwise
\* it returns None.
C1_LoginIffCreated ==
    ret.op = "login_user" =>
        /\ (ret.rows # <<>>) <=> (<<ret.email, ret.pw>> \in created)
        /\ ret.rows # <<>> => ret.rows[1].email = ret.email

\* a login that succeeds while the other password of the same account and a
\* second account exist
C1_Witness ==
    /\ ret.op = "login_user"
    /\ ret.rows # <<>>
    /\ ret.rows[1].email = ret.email
    /\ Cardinality(created) = 2

\* C2: add_user with an email already in users fails and leaves users as it
\* was; no two rows of users ever share an email.
C2_DuplicateRejected ==
    /\ [](\A r \in users, q \in users : r.email = q.email => r = q)
    /\ [][(ev' = "add_user" /\ \E r \in users : r.email = ret'.email)
            => (~ret'.ok /\ users' = users)]_vars

C2_Witness ==
    /\ ret.op = "add_user"
    /\ ~ret.ok
    /\ Cardinality(users) = 2

\* C3: get_records(uid) returns the rows saved for uid in reverse order of
\* insertion.
C3_ReverseInsertionOrder ==
    /\ \A u \in Uids : get_records(predictions, u) = Reverse(SavedFor(log, u))
    /\ ret.op = "get_records" => ret.rows = Reverse(SavedFor(log, ret.uid))

C3_Witness ==
    /\ ret.op = "get_records"
    /\ Len(ret.rows) = 2
    /\ ret.rows[1] # ret.rows[2]

\* C4: pressing Save Result on the form that Predict Breed showed, with a
\* user logged in, adds exactly one record, of that user, with the form's
\* breed and measurements, and get_records returns it first.
C4_SaveStoresRecord ==
    [][(ev' = "save" /\ user # <<>>) =>
          \E r \in predictions' :
             /\ r \notin predictions
             /\ predictions' = predictions \cup {r}
             /\ r.user_id = user[1].id
             /\ r.breed = form[1].breed
             /\ r.height = form[1].h
             /\ r.weight = form[1].w
             /\ r.age = form[1].a
             /\ r.gender = form[1].g
             /\ get_records(predictions', user[1].id)[1] = Columns(r)]_vars

\* C5: predictions changes only when Save Result is pressed with a user
\* logged in; Save Result without a user reports that a login is needed and
\* leaves predictions as it was.
C5_OnlySaveInserts ==
    [][/\ predictions' # predictions => (ev' = "save" /\ user # <<>>)
       /\ (ev' = "save" /\ user = <<>>) =>
             (msg' = "Login first to save" /\ predictions' = predictions)]_vars

C7_ForeignKey ==
    /\ \A r \in predictions : r.user_id \in Ids(users)
    /\ (ret.op = "save_prediction" /\ ret.uid \notin Ids(users)) => ~ret.ok

Overwritten(old, new, uid, profile) ==
    /\ Ids(new) = Ids(old)
    /\ Cardinality(new) = Cardinality(old)
    /\ \A r \in old, q \in new :
          r.id = q.id =>
             /\ q.email = r.email
             /\ q.password = r.password
             /\ IF r.id = uid
                THEN <<q.name, q.phone, q.address>> = profile
                ELSE q = r

C9_UnavailableGivesUnknown ==
    [][(ev' = "predict" /\ model' = "None") =>
          /\ shown' = <<[label |-> "Unknown", conf |-> 0]>>
          /\ form' # <<>>
          /\ UNCHANGED <<users, predictions, up, cam>>]_vars

C9_Witness ==
    /\ ev = "predict"
    /\ model = "None"
    /\ shown = <<[label |-> "Unknown", conf |-> 0]>>

\* C10: model is decided by the first evaluation and is the same after every
\* later one.
C10_DecidedOnce == [][model' = model]_vars

====
